---- MODULE Spec2Model ----
(***************************************************************************)
(* Model of the feedback organiser (src/index.tsx, first program in the    *)
(* file, lines 1-372): the analyze click handler with its batch loop, the  *)
(* label normaliser, the label-count aggregator, the review table and the  *)
(* two spreadsheet exports.                                                *)
(*                                                                         *)
(* Strings that the code inspects character by character (labels, the text *)
(* of a labels input) are sequences of one-character strings.  Feedback    *)
(* lines are only ever tested for blankness and copied, so a line is an    *)
(* integer token: k > 0 is a line with visible text, 0 is the empty line   *)
(* and -1 is a line holding only whitespace.  The textarea value is the    *)
(* sequence of its lines (the value split on "\n").                        *)
(***************************************************************************)
EXTENDS Integers, Sequences, FiniteSets, TLC

\* ---------------------------------------------------------------- bounds
\* BATCH_SIZE is 250 in the source (line 104); it is scaled down here so
\* that runs of several batches fit in the model.
BATCH_SIZE == 2
\* longest textarea value / spreadsheet column, in lines
MaxLines == 4
\* analyze-click handlers that may be suspended at an await at one time
MaxRuns == 2
\* user edits (label changes and checkbox toggles) in a session
MaxEdits == 1
\* longest label string fed to normalizeLabel on its own
MaxLabelLen == 3
\* largest record set fed to the aggregator and the export builder on their own
MaxRecords == 3

VARIABLES
  feedbackValue,        \* feedbackInput.value, as its sequence of lines
  analyzeDisabled,      \* analyzeButton.disabled
  exportDisabled,       \* exportButton.disabled
  exportExplodedDisabled, \* exportExplodedButton.disabled
  loadingHidden,        \* loadingSpinner.hidden
  headerHidden,         \* resultsHeader.hidden
  statusMessage,        \* statusMessage: textContent and the 'error' class
  resultsTable,         \* resultsTableContainer: error text, or table rows
  summaryHidden,        \* labelCountsSummary.hidden
  summary,              \* labelCountsSummary content: the rendered counts
  analysisResults,      \* the module-level analysisResults array
  runs,                 \* the suspended click handlers: their closures, with the
                        \* calls issued and the arrays received so far
  reader,               \* FileReaders with a read in progress
  edits,                \* edits the user has made so far
  ended,                \* the run whose handler returned in this step
  written,              \* the workbook XLSX.writeFile wrote in this step
  norm,                 \* a label taken through normalizeLabel on its own
  views                 \* a record set taken through the aggregator and the export builder

vars == <<feedbackValue, analyzeDisabled, exportDisabled, exportExplodedDisabled,
          loadingHidden, headerHidden, statusMessage, resultsTable, summaryHidden,
          summary, analysisResults, runs, reader, edits, ended,
          written, norm, views>>

\* ------------------------------------------------------- string helpers
Space == " "
Hash == "#"
Comma == ","
Alphabet == {Space, Hash, "A", "a"}

\* String.prototype.trim
RECURSIVE TrimLeft(_)
TrimLeft(s) ==
  IF s # <<>> /\ Head(s) = Space THEN TrimLeft(Tail(s)) ELSE s

RECURSIVE TrimRight(_)
TrimRight(s) ==
  IF s # <<>> /\ s[Len(s)] = Space THEN TrimRight(SubSeq(s, 1, Len(s) - 1)) ELSE s

Trim(s) == TrimRight(TrimLeft(s))

\* String.prototype.toLowerCase
LowerChar(c) == IF c = "A" THEN "a" ELSE c

ToLowerCase(s) == [k \in 1..Len(s) |-> LowerChar(s[k])]

\* replace(/^#+/, '')
RECURSIVE StripLeadingHashes(_)
StripLeadingHashes(s) ==
  IF s # <<>> /\ Head(s) = Hash THEN StripLeadingHashes(Tail(s)) ELSE s

normalizeLabel(label) == StripLeadingHashes(ToLowerCase(Trim(label)))

\* String.prototype.split(',')
RECURSIVE SplitComma(_, _)
SplitComma(s, cur) ==
  IF s = <<>> THEN <<cur>>
  ELSE IF Head(s) = Comma THEN <<cur>> \o SplitComma(Tail(s), <<>>)
  ELSE SplitComma(Tail(s), Append(cur, Head(s)))

\* target.value.split(',').map(l => l.trim()).filter(Boolean)
ParseLabels(value) ==
  LET parts == SplitComma(value, <<>>)
      trimmed == [k \in 1..Len(parts) |-> Trim(parts[k])]
  IN SelectSeq(trimmed, LAMBDA l : l # <<>>)

\* Array.prototype.join(', ')
RECURSIVE JoinLabels(_)
JoinLabels(labels) ==
  IF labels = <<>> THEN <<>>
  ELSE IF Len(labels) = 1 THEN labels[1]
  ELSE labels[1] \o <<Comma, Space>> \o JoinLabels(Tail(labels))

\* ------------------------------------------------- records and the service
\* the labels the service gives the feedback of a line
L_a == <<"a">>
L_Aa == <<"A", "a">>
L_HashAa == <<Hash, "a", "a">>
L_HashSpA == <<Hash, Space, "a">>
L_Hashes == <<Hash, Hash>>

ServiceLabels(line) ==
  IF line % 4 = 1 THEN <<L_a, L_Hashes>>
  ELSE IF line % 4 = 3 THEN <<L_Aa, L_HashAa, L_HashSpA>>
  ELSE <<>>

\* One entry per line, as the prompt asks for; the entry of every fourth
\* line comes with an isIncorrect of its own.
EchoResponse(batchLines) ==
  [k \in 1..Len(batchLines) |->
     [feedback |-> batchLines[k], labels |-> ServiceLabels(batchLines[k]),
      isIncorrect |-> IF batchLines[k] % 4 = 0 THEN "true" ELSE "absent"]]

\* The arrays JSON.parse(response.text) may yield for a batch: nothing at
\* all, or an entry per line.
Responses(batchLines) == {<<>>, EchoResponse(batchLines)}

FailureCauses == {"rejected", "unparsable"}

\* item => ({ ...item, isIncorrect: false })
TagItem(item) ==
  [feedback |-> item.feedback, labels |-> item.labels, isIncorrect |-> FALSE]

TagBatch(batch) == [k \in 1..Len(batch) |-> TagItem(batch[k])]

\* ------------------------------------------------------------ aggregator
\* labelCounts.set(l, (labelCounts.get(l) || 0) + 1) on an insertion-ordered Map
MapIncrement(m, key) ==
  IF \E k \in 1..Len(m) : m[k].label = key
  THEN [k \in 1..Len(m) |->
          IF m[k].label = key THEN [m[k] EXCEPT !.count = @ + 1] ELSE m[k]]
  ELSE Append(m, [label |-> key, count |-> 1])

\* Array.prototype.sort (stable since ES2019); c[j][k] is what the comparator
\* returns for the elements at j and k
StableSort(seq, c) ==
  LET n == Len(seq)
      before(j, k) == c[j][k] < 0 \/ (c[j][k] = 0 /\ j < k)
      rank(k) == Cardinality({j \in 1..n : before(j, k)}) + 1
  IN [p \in 1..n |-> seq[CHOOSE k \in 1..n : rank(k) = p]]

\* updateAndRenderStats: item.labels.forEach(...)
RECURSIVE statsCountLabels(_, _)
statsCountLabels(labels, m) ==
  IF labels = <<>> THEN m
  ELSE LET normalizedLabel == normalizeLabel(Head(labels))
       IN statsCountLabels(Tail(labels),
            IF normalizedLabel # <<>> THEN MapIncrement(m, normalizedLabel) ELSE m)

\* updateAndRenderStats: analysisResults.forEach(...)
RECURSIVE statsLabelCounts(_, _)
statsLabelCounts(records, m) ==
  IF records = <<>> THEN m
  ELSE statsLabelCounts(Tail(records), statsCountLabels(Head(records).labels, m))

\* a slip: ascending instead of descending
statsCompareAscending(a, b) == a.count - b.count

\* (a, b) => b[1] - a[1]
statsCompare(a, b) == b.count - a.count

\* updateAndRenderStats: the entries it renders, empty when it hides the summary
sortedLabels(records) ==
  LET labelCounts == statsLabelCounts(records, <<>>)
      n == Len(labelCounts)
  IN IF n = 0 THEN <<>>
     ELSE StableSort(labelCounts,
            [j \in 1..n |-> [k \in 1..n |-> statsCompare(labelCounts[j], labelCounts[k])]])

\* -------------------------------------------------------- export builder
YesNo(flag) == IF flag THEN "Yes" ELSE "No"

\* generateAndDownloadExcel / Compiled View: labeledFeedback.map(...)
compiledData(labeledFeedback) ==
  [k \in 1..Len(labeledFeedback) |->
     [Feedback |-> labeledFeedback[k].feedback,
      Labels |-> JoinLabels(labeledFeedback[k].labels),
      Incorrect |-> YesNo(labeledFeedback[k].isIncorrect)]]

\* a slip: a record without labels pushes nothing
explodedRowsSkipEmpty(item) ==
  [k \in 1..Len(item.labels) |->
     [Feedback |-> item.feedback, SingleLabel |-> item.labels[k],
      Incorrect |-> YesNo(item.isIncorrect)]]

\* the rows one record pushes onto explodedData
explodedRows(item) ==
  IF Len(item.labels) = 0
  THEN <<[Feedback |-> item.feedback, SingleLabel |-> <<>>,
          Incorrect |-> YesNo(item.isIncorrect)]>>
  ELSE [k \in 1..Len(item.labels) |->
          [Feedback |-> item.feedback, SingleLabel |-> item.labels[k],
           Incorrect |-> YesNo(item.isIncorrect)]]

\* Sheet 1: labeledFeedback.forEach(item => ...)
RECURSIVE explodedData(_)
explodedData(labeledFeedback) ==
  IF labeledFeedback = <<>> THEN <<>>
  ELSE explodedRows(Head(labeledFeedback)) \o explodedData(Tail(labeledFeedback))

\* Sheet 3: item.labels.forEach(...)
RECURSIVE exportCountLabels(_, _)
exportCountLabels(labels, m) ==
  IF labels = <<>> THEN m
  ELSE LET normalizedLabel == normalizeLabel(Head(labels))
       IN exportCountLabels(Tail(labels),
            IF normalizedLabel # <<>> THEN MapIncrement(m, normalizedLabel) ELSE m)

\* Sheet 3: labeledFeedback.forEach(...)
RECURSIVE exportLabelCounts(_, _)
exportLabelCounts(records, m) ==
  IF records = <<>> THEN m
  ELSE exportLabelCounts(Tail(records), exportCountLabels(Head(records).labels, m))

\* (a, b) => b.Count - a.Count
exportCompare(a, b) == b.count - a.count

\* Sheet 3: countsData
countsData(labeledFeedback) ==
  LET entries == exportLabelCounts(labeledFeedback, <<>>)
      n == Len(entries)
  IN StableSort(entries,
       [j \in 1..n |-> [k \in 1..n |-> exportCompare(entries[j], entries[k])]])

\* ------------------------------------------------------------ inputs
IsBlank(line) == line <= 0

\* the k-th line of the text the user has at hand: the second line of every
\* four is blank (empty, or whitespace only)
DocLine(k) == IF k % 4 = 2 THEN (IF k % 8 = 2 THEN 0 ELSE -1) ELSE k

Doc(n) == [k \in 1..n |-> DocLine(k)]

\* what the user may have in the textarea after typing or pasting
FeedbackValues == {Doc(n) : n \in {0, 1, MaxLines}}

\* the files the user may pick: first column / text content, and type
FileSet ==
  {[type |-> "csv", content |-> <<0, -1>>],
   [type |-> "xlsx", content |-> <<1, 0, -1>>],
   [type |-> "other", content |-> <<>>]}

\* the text typed into a labels input before it fires 'change'
EditValues ==
  {<<>>, <<Hash, Space, "a", Comma, Space, "A", "a", Space, Comma>>}

\* ------------------------------------------------------------- the state
Status(kind, a, b) == [kind |-> kind, a |-> a, b |-> b]

IdleRun ==
  [pc |-> "idle", feedbackLines |-> <<>>, totalBatches |-> 0, i |-> 0,
   calls |-> <<>>, resolved |-> 0, got |-> <<>>]

NoRun ==
  [outcome |-> "none", feedbackLines |-> <<>>, calls |-> <<>>, resolved |-> 0,
   got |-> <<>>, cause |-> "none"]

NoFile == [file |-> "none", sheets |-> <<>>]

NormIdle == [x |-> <<>>, n |-> 0, y1 |-> <<>>, y2 |-> <<>>]

ViewsIdle ==
  [records |-> <<>>, aggregated |-> FALSE, exported |-> FALSE, sortedLabels |-> <<>>,
   explodedData |-> <<>>, compiledData |-> <<>>, countsData |-> <<>>]

EmptyTable == [error |-> FALSE, rows |-> <<>>]

\* The page as it is loaded: analysisResults is empty (line 30); the textarea
\* is empty, the buttons are disabled and the header, the spinner and the
\* summary are hidden, as the page's markup leaves the elements of lines 8-20.
InitUI ==
  /\ feedbackValue = <<>>
  /\ analyzeDisabled = TRUE
  /\ exportDisabled = TRUE
  /\ exportExplodedDisabled = TRUE
  /\ loadingHidden = TRUE
  /\ headerHidden = TRUE
  /\ statusMessage = [text |-> Status("", 0, 0), error |-> FALSE]
  /\ resultsTable = EmptyTable
  /\ summaryHidden = TRUE
  /\ summary = <<>>
  /\ analysisResults = <<>>
  /\ runs = [r \in 1..MaxRuns |-> IdleRun]
  /\ reader = {}
  /\ edits = 0
  /\ ended = NoRun
  /\ written = NoFile

Init == InitUI /\ norm = NormIdle /\ views = ViewsIdle

\* nothing ends and nothing is written in a step that is not about that
Quiet == ended' = NoRun /\ written' = NoFile

\* feedbackInput.value.trim() is the empty string
TrimmedEmpty(value) == \A k \in 1..Len(value) : IsBlank(value[k])

\* checkInputs: the value it gives analyzeButton.disabled
checkInputs(value) == TrimmedEmpty(value)

\* ------------------------------------------------------ input and files
\* The file listener reports an unsupported type, a read error and a parse
\* error by writing a paragraph into resultsSection; that text is read by no
\* code and is not part of the state here.
\* feedbackInput 'input' listener
FeedbackInput(v) ==
  /\ feedbackValue' = v
  /\ analyzeDisabled' = checkInputs(v)
  /\ Quiet
  /\ UNCHANGED <<exportDisabled, exportExplodedDisabled, loadingHidden, headerHidden,
                 statusMessage, resultsTable, summaryHidden, summary, analysisResults, runs, reader, edits, norm, views>>

\* fileInput 'change' listener
FileChange(file) ==
  /\ reader' = IF file.type = "other" THEN reader ELSE reader \cup {file}
  /\ Quiet
  /\ UNCHANGED <<feedbackValue, analyzeDisabled, exportDisabled, exportExplodedDisabled,
                 loadingHidden, headerHidden, statusMessage, resultsTable, summaryHidden,
                 summary, analysisResults, runs, edits, norm, views>>

\* the first column without its empty cells, joined by "\n"
feedbackColumn(cells) == SelectSeq(cells, LAMBDA c : ~IsBlank(c))

\* reader.onload
FileLoaded(file) ==
  /\ file \in reader
  /\ reader' = reader \ {file}
  /\ \/ /\ feedbackValue' =
             (IF file.type = "csv" THEN file.content ELSE feedbackColumn(file.content))
        /\ analyzeDisabled' = checkInputs(feedbackValue')
     \/ \* XLSX.read throws
        /\ file.type = "xlsx"
        /\ UNCHANGED <<feedbackValue, analyzeDisabled>>
  /\ Quiet
  /\ UNCHANGED <<exportDisabled, exportExplodedDisabled, loadingHidden, headerHidden,
                 statusMessage, resultsTable, summaryHidden, summary, analysisResults,
                 runs, edits, norm, views>>

\* reader.onerror
FileError(file) ==
  /\ file \in reader
  /\ reader' = reader \ {file}
  /\ Quiet
  /\ UNCHANGED <<feedbackValue, analyzeDisabled, exportDisabled, exportExplodedDisabled,
                 loadingHidden, headerHidden, statusMessage, resultsTable, summaryHidden,
                 summary, analysisResults, runs, edits, norm, views>>

\* ---------------------------------------------------- the analyze handler
Min(a, b) == IF a < b THEN a ELSE b

\* Array.prototype.slice(start, end) for 0 <= start
slice(seq, start, end) == SubSeq(seq, start + 1, Min(end, Len(seq)))

\* feedbackText.split('\n').filter(line => line.trim() !== '')
feedbackLinesOf(value) == SelectSeq(value, LAMBDA line : ~IsBlank(line))

\* Math.ceil(feedbackLines.length / BATCH_SIZE)
totalBatchesOf(lines) == (Len(lines) + BATCH_SIZE - 1) \div BATCH_SIZE

\* a slip: batches that overlap by one line
batchLinesOverlap(lines, i) ==
  slice(lines, i * (BATCH_SIZE - 1), i * (BATCH_SIZE - 1) + BATCH_SIZE)

\* feedbackLines.slice(batchStart, batchEnd)
batchLinesOf(lines, i) ==
  LET batchStart == i * BATCH_SIZE
      batchEnd == batchStart + BATCH_SIZE
  IN slice(lines, batchStart, batchEnd)

\* renderResultsTable: one row per record, its checkbox showing isIncorrect
renderedRows(records) == [k \in 1..Len(records) |-> records[k].isIncorrect]

\* the UI as the handler has left it so far
CurrentUI ==
  [analyzeDisabled |-> analyzeDisabled, exportDisabled |-> exportDisabled,
   exportExplodedDisabled |-> exportExplodedDisabled, loadingHidden |-> loadingHidden,
   headerHidden |-> headerHidden, error |-> statusMessage.error,
   resultsTable |-> resultsTable, summaryHidden |-> summaryHidden,
   summary |-> summary, edits |-> edits]

\* The handler of run r from the head of the for loop (i already set) to its
\* next await or to its return; results is analysisResults and ui the UI as
\* the handler has left them so far.
LoopOrFinish(r, run, results, ui) ==
  /\ analysisResults' = results
  /\ written' = NoFile
  /\ IF run.i < run.totalBatches
     THEN \* lines 138-151: the next call is issued
          /\ runs' = [runs EXCEPT ![r] =
                [run EXCEPT !.pc = "await",
                            !.calls = Append(@, batchLinesOf(run.feedbackLines, run.i))]]
          /\ statusMessage' =
                [text |-> Status("processing", run.i + 1, run.totalBatches),
                 error |-> ui.error]
          /\ analyzeDisabled' = ui.analyzeDisabled
          /\ exportDisabled' = ui.exportDisabled
          /\ exportExplodedDisabled' = ui.exportExplodedDisabled
          /\ loadingHidden' = ui.loadingHidden
          /\ headerHidden' = ui.headerHidden
          /\ resultsTable' = ui.resultsTable
          /\ summaryHidden' = ui.summaryHidden
          /\ summary' = ui.summary
          /\ edits' = ui.edits
          /\ ended' = NoRun
     ELSE \* lines 161-170 and the finally block
          /\ runs' = [runs EXCEPT ![r] = IdleRun]
          /\ IF Len(results) > 0
             THEN /\ statusMessage' =
                       [text |-> Status("complete", Len(results), 0), error |-> ui.error]
                  /\ resultsTable' = [error |-> FALSE, rows |-> renderedRows(results)]
                  /\ edits' = ui.edits
                  /\ summary' = sortedLabels(results)
                  /\ summaryHidden' = (sortedLabels(results) = <<>>)
                  /\ headerHidden' = FALSE
                  /\ exportDisabled' = FALSE
                  /\ exportExplodedDisabled' = FALSE
             ELSE /\ statusMessage' =
                       [text |-> Status("noresults", 0, 0), error |-> ui.error]
                  /\ resultsTable' = ui.resultsTable
                  /\ edits' = ui.edits
                  /\ summary' = ui.summary
                  /\ summaryHidden' = ui.summaryHidden
                  /\ headerHidden' = ui.headerHidden
                  /\ exportDisabled' = ui.exportDisabled
                  /\ exportExplodedDisabled' = ui.exportExplodedDisabled
          /\ loadingHidden' = TRUE
          /\ analyzeDisabled' = checkInputs(feedbackValue)
          /\ ended' = [outcome |-> IF Len(results) > 0 THEN "success" ELSE "noresults",
                       feedbackLines |-> run.feedbackLines, calls |-> run.calls,
                       resolved |-> run.resolved, got |-> run.got, cause |-> "none"]

\* the slot a new handler's closure takes
FreeSlot(r) ==
  /\ runs[r].pc = "idle"
  /\ \A q \in 1..(r - 1) : runs[q].pc # "idle"

\* analyzeButton 'click' listener, up to its first await
AnalyzeClick(r) ==
  /\ ~analyzeDisabled
  /\ FreeSlot(r)
  /\ UNCHANGED <<feedbackValue, reader, norm, views>>
  /\ IF TrimmedEmpty(feedbackValue)
     THEN /\ Quiet
          /\ UNCHANGED <<analyzeDisabled, exportDisabled, exportExplodedDisabled,
                         loadingHidden, headerHidden, statusMessage, resultsTable,
                         summaryHidden, summary, analysisResults, runs, edits>>
     ELSE LET feedbackLines == feedbackLinesOf(feedbackValue)
              run == [pc |-> "idle", feedbackLines |-> feedbackLines,
                      totalBatches |-> totalBatchesOf(feedbackLines), i |-> 0,
                      calls |-> <<>>, resolved |-> 0, got |-> <<>>]
              reset == [analyzeDisabled |-> TRUE, exportDisabled |-> TRUE,
                        exportExplodedDisabled |-> TRUE, loadingHidden |-> FALSE,
                        headerHidden |-> TRUE, error |-> FALSE,
                        resultsTable |-> EmptyTable, summaryHidden |-> TRUE,
                        summary |-> <<>>, edits |-> edits]
          IN LoopOrFinish(r, run, <<>>, reset)

\* the arrays the call run r awaits may resolve to
PendingResponses(r) ==
  IF runs[r].pc = "await" THEN Responses(runs[r].calls[Len(runs[r].calls)]) ELSE {}

\* the call of run r resolves with a text that parses to an array
CallResolves(r) ==
  /\ runs[r].pc = "await"
  /\ UNCHANGED <<feedbackValue, reader, norm, views>>
  /\ \E labeledFeedbackBatch \in PendingResponses(r) :
       LET results == IF Len(labeledFeedbackBatch) > 0
                      THEN analysisResults \o TagBatch(labeledFeedbackBatch)
                      ELSE analysisResults
           run == [runs[r] EXCEPT !.i = @ + 1, !.resolved = @ + 1,
                                  !.got = @ \o labeledFeedbackBatch]
       IN LoopOrFinish(r, run, results, CurrentUI)

\* the call of run r rejects, or JSON.parse throws: catch and finally
CallFails(r, cause) ==
  /\ runs[r].pc = "await"
  /\ cause \in FailureCauses
  /\ statusMessage' = [text |-> Status("error", 0, 0), error |-> TRUE]
  /\ resultsTable' = [error |-> TRUE, rows |-> <<>>]
  /\ edits' = edits
  /\ loadingHidden' = TRUE
  /\ analyzeDisabled' = checkInputs(feedbackValue)
  /\ runs' = [runs EXCEPT ![r] = IdleRun]
  /\ ended' = [outcome |-> "error", feedbackLines |-> runs[r].feedbackLines,
               calls |-> runs[r].calls, resolved |-> runs[r].resolved,
               got |-> runs[r].got, cause |-> cause]
  /\ written' = NoFile
  /\ UNCHANGED <<feedbackValue, exportDisabled, exportExplodedDisabled, headerHidden,
                 summaryHidden, summary, analysisResults, reader, norm, views>>

\* ------------------------------------------------- review table and export
\* labelsInput 'change' listener of row k, the input holding value
LabelsChange(k, value) ==
  /\ k \in 1..Len(resultsTable.rows)
  /\ value \in EditValues
  /\ edits < MaxEdits
  /\ edits' = edits + 1
  /\ analysisResults' = [analysisResults EXCEPT ![k].labels = ParseLabels(value)]
  /\ summary' = sortedLabels(analysisResults')
  /\ summaryHidden' = (sortedLabels(analysisResults') = <<>>)
  /\ Quiet
  /\ UNCHANGED <<feedbackValue, analyzeDisabled, exportDisabled, exportExplodedDisabled,
                 loadingHidden, headerHidden, statusMessage, resultsTable,
                 runs, reader, norm, views>>

\* incorrectCheckbox 'change' listener of row k
IncorrectChange(k) ==
  /\ k \in 1..Len(resultsTable.rows)
  /\ edits < MaxEdits
  /\ edits' = edits + 1
  /\ resultsTable' = [resultsTable EXCEPT !.rows[k] = ~@]
  /\ analysisResults' = [analysisResults EXCEPT ![k].isIncorrect = resultsTable'.rows[k]]
  /\ Quiet
  /\ UNCHANGED <<feedbackValue, analyzeDisabled, exportDisabled, exportExplodedDisabled,
                 loadingHidden, headerHidden, statusMessage, summaryHidden, summary,
                 runs, reader, norm, views>>

\* the user edits the labels of a row of the table
LabelsChanged ==
  \E k \in 1..Len(resultsTable.rows) : \E value \in EditValues : LabelsChange(k, value)

\* the user ticks or unticks the checkbox of a row of the table
IncorrectChanged == \E k \in 1..Len(resultsTable.rows) : IncorrectChange(k)

\* exportButton 'click' listener
ExportClick ==
  /\ ~exportDisabled
  /\ written' = IF Len(analysisResults) > 0
                THEN [file |-> "feedback_analysis_results.xlsx",
                      sheets |-> <<compiledData(analysisResults)>>]
                ELSE NoFile
  /\ ended' = NoRun
  /\ UNCHANGED <<feedbackValue, analyzeDisabled, exportDisabled, exportExplodedDisabled,
                 loadingHidden, headerHidden, statusMessage, resultsTable, summaryHidden,
                 summary, analysisResults, runs, reader, edits, norm, views>>

\* exportExplodedButton 'click' listener
ExportExplodedClick ==
  /\ ~exportExplodedDisabled
  /\ written' = IF Len(analysisResults) > 0
                THEN [file |-> "feedback_analysis_detailed_export.xlsx",
                      sheets |-> <<explodedData(analysisResults),
                                   compiledData(analysisResults),
                                   countsData(analysisResults)>>]
                ELSE NoFile
  /\ ended' = NoRun
  /\ UNCHANGED <<feedbackValue, analyzeDisabled, exportDisabled, exportExplodedDisabled,
                 loadingHidden, headerHidden, statusMessage, resultsTable, summaryHidden,
                 summary, analysisResults, runs, reader, edits, norm, views>>

\* --------------------------------------------------------- specification
Next ==
  \/ \E v \in FeedbackValues : FeedbackInput(v)
  \/ \E file \in FileSet : FileChange(file)
  \/ \E file \in FileSet : FileLoaded(file)
  \/ \E file \in FileSet : FileError(file)
  \/ \E r \in 1..MaxRuns : AnalyzeClick(r)
  \/ \E r \in 1..MaxRuns : CallResolves(r)
  \/ \E r \in 1..MaxRuns : \E cause \in FailureCauses : CallFails(r, cause)
  \/ LabelsChanged
  \/ IncorrectChanged
  \/ ExportClick
  \/ ExportExplodedClick

Spec == Init /\ [][Next]_vars

\* The session without the review table and the exports: the steps that
\* start, continue and end runs, and those that set the text and the button.
NextBatches ==
  \/ \E v \in FeedbackValues : FeedbackInput(v)
  \/ \E file \in FileSet : FileChange(file)
  \/ \E file \in FileSet : FileLoaded(file)
  \/ \E file \in FileSet : FileError(file)
  \/ \E r \in 1..MaxRuns : AnalyzeClick(r)
  \/ \E r \in 1..MaxRuns : CallResolves(r)
  \/ \E r \in 1..MaxRuns : \E cause \in FailureCauses : CallFails(r, cause)

SpecBatches == Init /\ [][NextBatches]_vars

\* every rendered row stands for a record
TableWithinResults == Len(resultsTable.rows) <= Len(analysisResults)

\* ------------------------------------------- the normaliser on its own
RECURSIVE StringsUpTo(_)
StringsUpTo(n) ==
  IF n = 0 THEN {<<>>}
  ELSE LET shorter == StringsUpTo(n - 1)
       IN shorter \cup {Append(s, c) : s \in {t \in shorter : Len(t) = n - 1}, c \in Alphabet}

InitNorm ==
  /\ InitUI
  /\ views = ViewsIdle
  /\ norm \in {[x |-> s, n |-> 0, y1 |-> <<>>, y2 |-> <<>>] : s \in StringsUpTo(MaxLabelLen)}

\* normalizeLabel applied to a raw label
NormalizeRaw ==
  /\ norm.n = 0
  /\ norm' = [norm EXCEPT !.n = 1, !.y1 = normalizeLabel(norm.x)]
  /\ UNCHANGED <<feedbackValue, analyzeDisabled, exportDisabled, exportExplodedDisabled,
                 loadingHidden, headerHidden, statusMessage, resultsTable, summaryHidden,
                 summary, analysisResults, runs, reader, edits, ended, written, views>>

\* normalizeLabel applied to its own result
NormalizeAgain ==
  /\ norm.n = 1
  /\ norm' = [norm EXCEPT !.n = 2, !.y2 = normalizeLabel(norm.y1)]
  /\ UNCHANGED <<feedbackValue, analyzeDisabled, exportDisabled, exportExplodedDisabled,
                 loadingHidden, headerHidden, statusMessage, resultsTable, summaryHidden,
                 summary, analysisResults, runs, reader, edits, ended, written, views>>

NextNorm == NormalizeRaw \/ NormalizeAgain

SpecNorm == InitNorm /\ [][NextNorm]_vars

\* ------------------------- the aggregator and the export builder on their own
\* the label sequences a record may carry
LabelChoices ==
  {<<>>, <<L_a>>, <<L_Aa, L_HashAa>>, <<L_HashSpA, L_Hashes, L_a>>}

\* the records that may stand at position k of a record set
RecordsAt(k) ==
  {[feedback |-> k, labels |-> ls, isIncorrect |-> b] : ls \in LabelChoices, b \in BOOLEAN}

RECURSIVE RecordSetsOfLen(_)
RecordSetsOfLen(n) ==
  IF n = 0 THEN {<<>>}
  ELSE {Append(rs, rec) : rs \in RecordSetsOfLen(n - 1), rec \in RecordsAt(n)}

RecordSets == UNION {RecordSetsOfLen(n) : n \in 0..MaxRecords}

InitViews ==
  /\ InitUI
  /\ norm = NormIdle
  /\ views \in {[ViewsIdle EXCEPT !.records = rs] : rs \in RecordSets}

\* updateAndRenderStats over the record set
ViewAggregate ==
  /\ ~views.aggregated
  /\ views' = [views EXCEPT !.aggregated = TRUE,
                            !.sortedLabels = sortedLabels(views.records)]
  /\ UNCHANGED <<feedbackValue, analyzeDisabled, exportDisabled, exportExplodedDisabled,
                 loadingHidden, headerHidden, statusMessage, resultsTable, summaryHidden,
                 summary, analysisResults, runs, reader, edits, ended, written, norm>>

\* generateAndDownloadExplodedExcel over the record set
ViewExport ==
  /\ ~views.exported
  /\ views' = [views EXCEPT !.exported = TRUE,
                            !.explodedData = explodedData(views.records),
                            !.compiledData = compiledData(views.records),
                            !.countsData = countsData(views.records)]
  /\ UNCHANGED <<feedbackValue, analyzeDisabled, exportDisabled, exportExplodedDisabled,
                 loadingHidden, headerHidden, statusMessage, resultsTable, summaryHidden,
                 summary, analysisResults, runs, reader, edits, ended, written, norm>>

NextViews == ViewAggregate \/ ViewExport

SpecViews == InitViews /\ [][NextViews]_vars

\* ====================================================== the claims
Pending == {r \in 1..MaxRuns : runs[r].pc = "await"}

\* ------------------------------------------------------------------ C1
\* the least number of batches of size BATCH_SIZE that hold n lines
CeilOfBatches(n) == CHOOSE c \in 0..n : c * BATCH_SIZE >= n /\ (c - 1) * BATCH_SIZE < n

\* lines (k-1)*B+1 .. min(k*B, N) of the N lines, in their order
ExpectedCall(lines, k) ==
  [j \in 1..(Min(k * BATCH_SIZE, Len(lines)) - (k - 1) * BATCH_SIZE) |->
     lines[(k - 1) * BATCH_SIZE + j]]

CallsInOrder(lines, calls) ==
  /\ \A k \in 1..Len(lines) : ~IsBlank(lines[k])
  /\ Len(calls) <= CeilOfBatches(Len(lines))
  /\ \A k \in 1..Len(calls) : calls[k] = ExpectedCall(lines, k)

\* C1: a run over N non-blank lines issues its calls one at a time, the k-th
\* carrying lines (k-1)*B+1 .. min(k*B, N) in input order and issued only
\* once the calls before it have resolved; a run none of whose calls fails
\* issues exactly ceil(N/B) calls.
C1_SequentialBatches ==
  /\ \A r \in Pending :
       /\ CallsInOrder(runs[r].feedbackLines, runs[r].calls)
       /\ Len(runs[r].calls) = runs[r].resolved + 1
  /\ ended.outcome # "none" =>
       /\ CallsInOrder(ended.feedbackLines, ended.calls)
       /\ ended.outcome = "error" => Len(ended.calls) = ended.resolved + 1
       /\ ended.outcome # "error" =>
            /\ Len(ended.calls) = CeilOfBatches(Len(ended.feedbackLines))
            /\ ended.resolved = Len(ended.calls)

\* a run of several batches, the last of them short, has ended without a failure
C1_Witness ==
  /\ ended.outcome \in {"success", "noresults"}
  /\ Len(ended.calls) >= 2
  /\ Len(ended.calls[Len(ended.calls)]) < BATCH_SIZE

\* ------------------------------------------------------------------ C2
\* C2: when a run ends in the error outcome, the result set is empty: what
\* its earlier batches brought is not kept.
C2_FailedRunLeavesNothing ==
  ended.outcome = "error" => analysisResults = <<>>

\* ------------------------------------------------------------------ C3
\* C3: at most one classification call is in flight.
C3_AtMostOneCallInFlight == Cardinality(Pending) <= 1

\* ------------------------------------------------------------------ C4
\* what the arrays a run received make, entry by entry
Tagged(got) ==
  [k \in 1..Len(got) |->
     [feedback |-> got[k].feedback, labels |-> got[k].labels, isIncorrect |-> FALSE]]

\* C4: when a run ends successfully, the result set is the concatenation, in
\* batch order, of the arrays its calls returned, each entry with its text
\* and labels and with isIncorrect = false.
C4_ResultIsTheRunsBatches ==
  ended.outcome = "success" => analysisResults = Tagged(ended.got)

\* ------------------------------------------------------------------ C5
\* a labels input or a checkbox of the table can fire 'change'
EditEnabled == \E k \in 1..Len(resultsTable.rows) : edits < MaxEdits

\* C5: while a classification call is pending, no label edit and no flag
\* toggle is possible.
C5_NoEditWhileCallPending == Pending # {} => ~EditEnabled

\* ------------------------------------------------------------------ C6
\* C6: a run all of whose calls succeeded and returned nothing ends in the
\* no-results outcome: the no-results message without the error marker, no
\* table, no summary, and both export buttons disabled.
C6_EmptyRunIsNoResults ==
  (ended.outcome \in {"success", "noresults"} /\ ended.got = <<>>) =>
    /\ statusMessage.text.kind = "noresults"
    /\ ~statusMessage.error
    /\ resultsTable.rows = <<>>
    /\ summaryHidden
    /\ exportDisabled
    /\ exportExplodedDisabled

\* ------------------------------------------------------------------ C7
\* C7: normalizeLabel is idempotent: normalising a normalised label changes
\* nothing.
C7_NormalizeIdempotent == norm.n = 2 => norm.y2 = norm.y1

\* ------------------------------------------------------------------ C8
\* the places (record, label) of a record set
LabelPlaces(rs) ==
  UNION {{<<r, j>> : j \in 1..Len(rs[r].labels)} : r \in 1..Len(rs)}

NormalizedAt(rs, place) == normalizeLabel(rs[place[1]].labels[place[2]])

\* C8: the aggregator output has one entry per distinct non-empty normalised
\* label, its count the number of label occurrences that normalise to it,
\* ordered by count non-increasing; the Label Counts sheet of the detailed
\* export is the same sequence.
C8_AggregatorOutput ==
  LET rs == views.records
      agg == views.sortedLabels
  IN /\ views.aggregated =>
          /\ \A p, q \in 1..Len(agg) : p # q => agg[p].label # agg[q].label
          /\ {agg[p].label : p \in 1..Len(agg)} =
               {NormalizedAt(rs, place) : place \in LabelPlaces(rs)} \ {<<>>}
          /\ \A p \in 1..Len(agg) :
               /\ agg[p].count >= 1
               /\ agg[p].count =
                    Cardinality({place \in LabelPlaces(rs) :
                                   NormalizedAt(rs, place) = agg[p].label})
          /\ \A p, q \in 1..Len(agg) : p < q => agg[p].count >= agg[q].count
     /\ (views.aggregated /\ views.exported) => views.countsData = agg

\* both views are built of a record set with a label that normalises to
\* nothing and whose labels come out in another order than they came in
C8_Witness ==
  /\ views.aggregated
  /\ views.exported
  /\ \E place \in LabelPlaces(views.records) : NormalizedAt(views.records, place) = <<>>
  /\ Len(views.sortedLabels) >= 2
  /\ views.sortedLabels # statsLabelCounts(views.records, <<>>)

\* ------------------------------------------------------------------ C9
RowsOf(record) == IF Len(record.labels) = 0 THEN 1 ELSE Len(record.labels)

\* the rows the records before record r take
RECURSIVE RowsBefore(_, _)
RowsBefore(rs, r) == IF r = 1 THEN 0 ELSE RowsBefore(rs, r - 1) + RowsOf(rs[r - 1])

\* C9: the exploded view has sum of max(1, len(labels)) rows, in record
\* order then label order; a record without labels has one row, whose
\* Single Label is the empty string.
C9_ExplodedView ==
  LET rs == views.records
      rows == views.explodedData
  IN views.exported =>
       /\ Len(rows) = RowsBefore(rs, Len(rs) + 1)
       /\ \A r \in 1..Len(rs) : \A j \in 1..RowsOf(rs[r]) :
            LET row == rows[RowsBefore(rs, r) + j]
            IN /\ row.Feedback = rs[r].feedback
               /\ row.SingleLabel =
                    (IF Len(rs[r].labels) = 0 THEN <<>> ELSE rs[r].labels[j])
               /\ row.Incorrect = (IF rs[r].isIncorrect THEN "Yes" ELSE "No")

\* the exploded view is built of a record without labels between records
\* with labels
C9_Witness ==
  /\ views.exported
  /\ Len(views.records) = 3
  /\ Len(views.records[1].labels) >= 2
  /\ views.records[2].labels = <<>>
  /\ views.records[3].labels # <<>>

\* ----------------------------------------------------------------- C10
\* C10: a summary that is displayed is the aggregator output for the
\* current record set.
C10_SummaryMatchesRecords ==
  ~summaryHidden => summary = sortedLabels(analysisResults)

\* ----------------------------------------------------------------- C11
ExportEnabled == ~exportDisabled \/ ~exportExplodedDisabled

\* the feedback texts of a sequence of entries, which no edit changes
Texts(entries) == [k \in 1..Len(entries) |-> entries[k].feedback]

\* C11: while an export button is enabled the record set is non-empty and
\* no run is in flight; the run that has just ended with the buttons enabled
\* ended successfully and the record set is what its calls returned; after a
\* run that failed or brought no result both export buttons are disabled.
C11_ExportsOnlyAfterSuccess ==
  /\ ExportEnabled => (analysisResults # <<>> /\ Pending = {})
  /\ (ExportEnabled /\ ended.outcome # "none") =>
       /\ ended.outcome = "success"
       /\ Texts(analysisResults) = Texts(ended.got)
  /\ ended.outcome \in {"error", "noresults"} =>
       (exportDisabled /\ exportExplodedDisabled)

====
